---- MODULE Spec2Model ----
(***************************************************************************)
(* Model of azul's window module (src/azul/src/window.rs): the per-window  *)
(* scroll-state table (ScrollStates / ScrollState) and the window-state    *)
(* diff engine (Window::update_from_user_window_state), and the            *)
(* construction of the hidden bootstrap display (FakeDisplay::new) and of   *)
(* windows (Window::new): context negotiation, renderer selection,         *)
(* document registration and pipeline ids.                                 *)
(*                                                                         *)
(* f32 values are modelled as integers: every value that occurs is an      *)
(* integer of small magnitude, on which f32 addition, min and max are      *)
(* exact.  NaN and infinities are outside the model.                       *)
(***************************************************************************)
EXTENDS Integers, Sequences, FiniteSets, TLC

\* ------------------------------------------------------------------ bounds
\* largest and most negative overflow bound passed at registration
MaxOverflow == 1
NegOverflow == 1
\* largest magnitude of a scroll delta passed to scroll_node
MaxDelta == 2
\* largest number of fields in which a desired WindowState differs from the
\* stored one
MaxChanged == 2
\* largest number of windows alive at once
MaxWindows == 2
\* half the width of a u32, in values: a u32 is kept as
\* <<high 16 bits, low 16 bits>>
Half == 65536

\* ExternalScrollId is opaque (only compared for equality): two ids
ScrollIds == {1, 99}
\* overflow bounds passed to ensure_initialized_scroll_state
Overflows == {0 - NegOverflow, 0, MaxOverflow}
\* deltas passed to scroll_node: single steps and jumps past every bound
Deltas == {0 - MaxDelta, 0 - 1, 0, 1, MaxDelta}

\* ------------------------------------------------------------------ state
VARIABLES
    scroll_states,  \* ScrollStates.0 : ExternalScrollId -> ScrollState (partial)
    touched,        \* ids passed to ensure_initialized / get / scroll_node
                    \* since the previous remove_unused_scroll_states call
    purged,         \* ids that the latest remove_unused_scroll_states call found
                    \* registered with a non-zero offset and untouched during
                    \* the frame it ended, not read or scrolled since
    last,           \* the most recent call: its name, arguments and result
    state,          \* Window.state : the stored WindowState
    platform,       \* the properties the platform (winit) window actually has
    calls,          \* platform calls issued by the most recent Window method
    fake_display,   \* the process's FakeDisplay, None before it is created
    LAST_PIPELINE_ID, \* the static counter, its low 32 bits
    documents,      \* number of render_api.add_document calls so far (as a u32)
    windows,        \* the windows constructed and alive, oldest first: their
                    \* ids, the context their GL context shares with, and
                    \* their visibility on the platform
    ctx_attempts,   \* CombinedContext::new calls of the most recent constructor
    renderer_attempts, \* Renderer::new calls of the most recent constructor
    node_layout     \* ui_state.dom.arena.node_layout : the nodes of the DOM in
                    \* arena order, each with its parent

wvars == <<state, platform, calls>>
svars == <<scroll_states, touched, purged>>
cvars == <<fake_display, LAST_PIPELINE_ID, documents, windows, ctx_attempts,
           renderer_attempts>>
vars == <<scroll_states, touched, purged, last, state, platform, calls,
          fake_display, LAST_PIPELINE_ID, documents, windows, ctx_attempts,
          renderer_attempts, node_layout>>

\* Option<T>
None == <<>>
Some(v) == <<v>>

\* f32::min, f32::max on non-NaN values
Min(a, b) == IF a <= b THEN a ELSE b
Max(a, b) == IF a >= b THEN a ELSE b

\* ------------------------------------------------------------ ScrollState
\* (faulty variant: a new entry starts with the flag cleared)
ScrollState_new_unused(overflow_x, overflow_y) ==
    [scroll_amount_x |-> 0,
     scroll_amount_y |-> 0,
     overflow_x |-> overflow_x,
     overflow_y |-> overflow_y,
     used_this_frame |-> FALSE]

ScrollState_new(overflow_x, overflow_y) ==
    [scroll_amount_x |-> 0,
     scroll_amount_y |-> 0,
     overflow_x |-> overflow_x,
     overflow_y |-> overflow_y,
     used_this_frame |-> TRUE]

\* (faulty variant: the two components of the returned pair exchanged)
ScrollState_get_swapped(s) ==
    [entry |-> [s EXCEPT !.used_this_frame = TRUE],
     ret |-> <<s.scroll_amount_y, s.scroll_amount_x>>]

\* ScrollState::get(&mut self): the entry afterwards and the value returned
ScrollState_get(s) ==
    [entry |-> [s EXCEPT !.used_this_frame = TRUE],
     ret |-> <<s.scroll_amount_x, s.scroll_amount_y>>]

\* (faulty variant: the trailing .max(0.0) left out)
ScrollState_add_no_floor(s, x, y) ==
    [s EXCEPT
        !.scroll_amount_x = Min(s.overflow_x, s.scroll_amount_x + x),
        !.scroll_amount_y = Min(s.overflow_y, s.scroll_amount_y + y)]

\* (faulty variant: the y axis clamped against overflow_x)
ScrollState_add_wrong_axis(s, x, y) ==
    [s EXCEPT
        !.scroll_amount_x = Max(Min(s.overflow_x, s.scroll_amount_x + x), 0),
        !.scroll_amount_y = Max(Min(s.overflow_x, s.scroll_amount_y + y), 0)]

\* (faulty variant: the old offset clamped, then the delta added)
ScrollState_add_clamp_first(s, x, y) ==
    [s EXCEPT
        !.scroll_amount_x = Max(Min(s.overflow_x, s.scroll_amount_x) + x, 0),
        !.scroll_amount_y = Max(Min(s.overflow_y, s.scroll_amount_y) + y, 0)]

\* ScrollState::add(&mut self, x, y)
ScrollState_add(s, x, y) ==
    [s EXCEPT
        !.scroll_amount_x = Max(Min(s.overflow_x, s.scroll_amount_x + x), 0),
        !.scroll_amount_y = Max(Min(s.overflow_y, s.scroll_amount_y + y), 0)]

\* ----------------------------------------------------------- ScrollStates
\* ScrollStates::new()
ScrollStates_new == [i \in {} |-> ScrollState_new(0, 0)]

\* HashMap::retain(|_, state| state.used_this_frame)
Retain(m) ==
    [i \in {j \in DOMAIN m : m[j].used_this_frame} |-> m[i]]

Call(name, id, x, y, ret) ==
    [name |-> name, id |-> id, x |-> x, y |-> y, ret |-> ret]

get_scroll_amount(scroll_id) ==
    /\ IF scroll_id \in DOMAIN scroll_states
         THEN LET r == ScrollState_get(scroll_states[scroll_id])
              IN /\ scroll_states' = [scroll_states EXCEPT ![scroll_id] = r.entry]
                 /\ last' = Call("get_scroll_amount", scroll_id, 0, 0, Some(r.ret))
         ELSE /\ scroll_states' = scroll_states
              /\ last' = Call("get_scroll_amount", scroll_id, 0, 0, None)
    /\ touched' = touched \cup {scroll_id}
    /\ purged' = purged \ {scroll_id}
    /\ UNCHANGED <<node_layout, wvars, cvars>>

\* (faulty variant: entry(id).or_default().add(..) instead of get_mut)
scroll_node_or_default(scroll_id, scroll_by_x, scroll_by_y) ==
    /\ IF scroll_id \in DOMAIN scroll_states
         THEN scroll_states' =
                [scroll_states EXCEPT
                    ![scroll_id] = ScrollState_add(@, scroll_by_x, scroll_by_y)]
         ELSE scroll_states' =
                (scroll_id :> ScrollState_add(ScrollState_new(0, 0),
                                              scroll_by_x, scroll_by_y))
                @@ scroll_states
    /\ last' = Call("scroll_node", scroll_id, scroll_by_x, scroll_by_y, None)
    /\ touched' = touched \cup {scroll_id}
    /\ purged' = purged \ {scroll_id}
    /\ UNCHANGED <<node_layout, wvars, cvars>>

\* Updating the scroll amount does not update entry.used_this_frame
scroll_node(scroll_id, scroll_by_x, scroll_by_y) ==
    /\ IF scroll_id \in DOMAIN scroll_states
         THEN scroll_states' =
                [scroll_states EXCEPT
                    ![scroll_id] = ScrollState_add(@, scroll_by_x, scroll_by_y)]
         ELSE scroll_states' = scroll_states
    /\ last' = Call("scroll_node", scroll_id, scroll_by_x, scroll_by_y, None)
    /\ touched' = touched \cup {scroll_id}
    /\ purged' = purged \ {scroll_id}
    /\ UNCHANGED <<node_layout, wvars, cvars>>

\* (faulty variant: HashMap::insert instead of entry().or_insert_with())
ensure_initialized_insert(scroll_id, overflow_x, overflow_y) ==
    /\ IF scroll_id \in DOMAIN scroll_states
         THEN scroll_states' =
                [scroll_states EXCEPT
                    ![scroll_id] = ScrollState_new(overflow_x, overflow_y)]
         ELSE scroll_states' =
                (scroll_id :> ScrollState_new(overflow_x, overflow_y)) @@ scroll_states
    /\ last' = Call("ensure_initialized_scroll_state", scroll_id,
                    overflow_x, overflow_y, None)
    /\ touched' = touched \cup {scroll_id}
    /\ UNCHANGED <<node_layout, purged, wvars, cvars>>

ensure_initialized_scroll_state(scroll_id, overflow_x, overflow_y) ==
    /\ IF scroll_id \in DOMAIN scroll_states
         THEN scroll_states' = scroll_states
         ELSE scroll_states' =
                (scroll_id :> ScrollState_new(overflow_x, overflow_y)) @@ scroll_states
    /\ last' = Call("ensure_initialized_scroll_state", scroll_id,
                    overflow_x, overflow_y, None)
    /\ touched' = touched \cup {scroll_id}
    /\ UNCHANGED <<node_layout, purged, wvars, cvars>>

remove_unused_scroll_states ==
    /\ scroll_states' = Retain(scroll_states)
    /\ last' = Call("remove_unused_scroll_states", 0, 0, 0, None)
    /\ purged' = {i \in DOMAIN scroll_states \ touched :
                    \/ scroll_states[i].scroll_amount_x # 0
                    \/ scroll_states[i].scroll_amount_y # 0}
    /\ touched' = {}
    /\ UNCHANGED <<node_layout, wvars, cvars>>

\* ------------------------------------------------------------ WindowState
\* The fields of WindowState that Window reads or writes; the nested
\* mouse_state.* and size.* fields are flattened (mouse_position is
\* mouse_state.position).
TrackedFields ==
    {"title", "mouse_cursor_type", "is_maximized", "is_fullscreen",
     "has_decorations", "is_visible", "min_dimensions", "max_dimensions"}
UntrackedFields == {"mouse_position", "dimensions", "position"}
\* fields that only the event loop and the window itself write
OtherFields ==
    {"keyboard_state", "scroll_x", "scroll_y", "hidpi_factor", "winit_hidpi_factor"}
Fields == TrackedFields \cup UntrackedFields \cup OtherFields

\* Two representative values per field: the code only compares a field's
\* old and new value and hands the new one to the platform.
Values(f) ==
    CASE f = "title" -> {"A", "B"}
      [] f = "mouse_cursor_type" -> {"Default", "Hand"}
      [] f \in {"is_maximized", "is_fullscreen", "has_decorations", "is_visible"}
            -> {FALSE, TRUE}
      [] f \in {"min_dimensions", "max_dimensions"} -> {None, Some(<<10, 10>>)}
      [] f = "mouse_position" -> {None, Some(<<0, 0>>)}
      [] f = "position" -> {None, Some(<<5, 5>>)}
      [] f = "dimensions" -> {<<800, 600>>, <<1024, 768>>}
      [] f = "keyboard_state" -> {"no_key", "shift_down"}
      [] f \in {"scroll_x", "scroll_y"} -> {0, 3}
      [] f \in {"hidpi_factor", "winit_hidpi_factor"} -> {1, 2}

BaseState ==
    [f \in Fields |->
        CASE f = "title" -> "A"
          [] f = "mouse_cursor_type" -> "Default"
          [] f \in {"is_maximized", "is_fullscreen"} -> FALSE
          [] f \in {"has_decorations", "is_visible"} -> TRUE
          [] f \in {"min_dimensions", "max_dimensions", "mouse_position", "position"}
                -> None
          [] f = "dimensions" -> <<800, 600>>
          [] f = "keyboard_state" -> "no_key"
          [] f \in {"scroll_x", "scroll_y"} -> 0
          [] f \in {"hidpi_factor", "winit_hidpi_factor"} -> 1]

\* the WindowState that differs from s exactly on the fields in D
Changed(s, D) ==
    [f \in Fields |-> IF f \in D THEN CHOOSE v \in Values(f) : v # s[f] ELSE s[f]]

\* ------------------------------------------------- the platform (winit) window
PlatformCall(mutator, arg) == <<mutator, arg>>

\* the effect of one winit call on the platform window
ApplyCall(p, c) ==
    CASE c[1] = "set_title" -> [p EXCEPT !.title = c[2]]
      [] c[1] = "set_cursor" -> [p EXCEPT !.mouse_cursor_type = c[2]]
      [] c[1] = "set_maximized" -> [p EXCEPT !.is_maximized = c[2]]
      [] c[1] = "set_fullscreen" -> [p EXCEPT !.is_fullscreen = (c[2] # None)]
      [] c[1] = "set_decorations" -> [p EXCEPT !.has_decorations = c[2]]
      [] c[1] = "show" -> [p EXCEPT !.is_visible = TRUE]
      [] c[1] = "hide" -> [p EXCEPT !.is_visible = FALSE]
      [] c[1] = "set_min_dimensions" -> [p EXCEPT !.min_dimensions = c[2]]
      [] c[1] = "set_max_dimensions" -> [p EXCEPT !.max_dimensions = c[2]]
      [] c[1] \in {"set_position", "set_inner_size"} -> p

RECURSIVE ApplyCalls(_, _)
ApplyCalls(p, cs) ==
    IF cs = <<>> THEN p ELSE ApplyCalls(ApplyCall(p, Head(cs)), Tail(cs))

\* ----------------------------------------------------------------- Window
\* Window::new: the platform window as built by GliumWindowBuilder and the
\* calls made on it before the Window value is returned
WindowNew_builder(options) ==
    [title |-> options.title,
     mouse_cursor_type |-> "Default",
     is_maximized |-> options.is_maximized,
     is_fullscreen |-> FALSE,
     has_decorations |-> options.has_decorations,
     is_visible |-> FALSE,
     min_dimensions |-> options.min_dimensions,
     max_dimensions |-> options.max_dimensions]

\* (faulty variant: the window is shown when the options ask for it)
WindowNew_calls_show(options) ==
    <<IF options.is_visible
        THEN PlatformCall("show", None) ELSE PlatformCall("hide", None)>>

\* Window::new: the calls on the created window, in code order
WindowNew_calls(options) ==
       <<PlatformCall("hide", None)>>
    \o (IF options.is_fullscreen
          THEN <<PlatformCall("set_fullscreen", Some("current_monitor"))>> ELSE <<>>)
    \o (IF options.position # None
          THEN <<PlatformCall("set_position", options.position[1])>> ELSE <<>>)
    \o (IF options.is_maximized /\ ~options.is_fullscreen
          THEN <<PlatformCall("set_maximized", TRUE)>>
          ELSE IF ~options.is_fullscreen
                 THEN <<PlatformCall("set_inner_size", options.dimensions)>>
                 ELSE <<>>)

WindowNew_platform(options) ==
    ApplyCalls(WindowNew_builder(options), WindowNew_calls(options))

\* Window::new: `let mut state = options.state.clone()`, then both DPI
\* factors are taken from the monitor (factor 1 here)
WindowNew_state(options) ==
    [options EXCEPT !.hidpi_factor = 1, !.winit_hidpi_factor = 1]

\* (faulty variant: every block runs without comparing old and new)
UserStateCalls_unconditional(old_state, new_state) ==
    <<PlatformCall("set_title", new_state.title),
      PlatformCall("set_cursor", new_state.mouse_cursor_type),
      PlatformCall("set_maximized", new_state.is_maximized),
      IF new_state.is_fullscreen
        THEN PlatformCall("set_fullscreen", Some("current_monitor"))
        ELSE PlatformCall("set_fullscreen", None),
      PlatformCall("set_decorations", new_state.has_decorations),
      IF new_state.is_visible
        THEN PlatformCall("show", None) ELSE PlatformCall("hide", None),
      PlatformCall("set_min_dimensions", new_state.min_dimensions),
      PlatformCall("set_max_dimensions", new_state.max_dimensions)>>

\* Window::update_from_user_window_state: the platform calls, in code order
UserStateCalls(old_state, new_state) ==
       (IF old_state.title # new_state.title
          THEN <<PlatformCall("set_title", new_state.title)>> ELSE <<>>)
    \o (IF old_state.mouse_cursor_type # new_state.mouse_cursor_type
          THEN <<PlatformCall("set_cursor", new_state.mouse_cursor_type)>> ELSE <<>>)
    \o (IF old_state.is_maximized # new_state.is_maximized
          THEN <<PlatformCall("set_maximized", new_state.is_maximized)>> ELSE <<>>)
    \o (IF old_state.is_fullscreen # new_state.is_fullscreen
          THEN IF new_state.is_fullscreen
                 THEN <<PlatformCall("set_fullscreen", Some("current_monitor"))>>
                 ELSE <<PlatformCall("set_fullscreen", None)>>
          ELSE <<>>)
    \o (IF old_state.has_decorations # new_state.has_decorations
          THEN <<PlatformCall("set_decorations", new_state.has_decorations)>> ELSE <<>>)
    \o (IF old_state.is_visible # new_state.is_visible
          THEN IF new_state.is_visible
                 THEN <<PlatformCall("show", None)>>
                 ELSE <<PlatformCall("hide", None)>>
          ELSE <<>>)
    \o (IF old_state.min_dimensions # new_state.min_dimensions
          THEN <<PlatformCall("set_min_dimensions", new_state.min_dimensions)>>
          ELSE <<>>)
    \o (IF old_state.max_dimensions # new_state.max_dimensions
          THEN <<PlatformCall("set_max_dimensions", new_state.max_dimensions)>>
          ELSE <<>>)

\* (faulty variant: the max_dimensions block stores into min_dimensions)
UserStateAfter_copy_paste(old_state, new_state) ==
    [old_state EXCEPT
        !.title = IF @ # new_state.title THEN new_state.title ELSE @,
        !.mouse_cursor_type =
            IF @ # new_state.mouse_cursor_type THEN new_state.mouse_cursor_type ELSE @,
        !.is_maximized = IF @ # new_state.is_maximized THEN new_state.is_maximized ELSE @,
        !.is_fullscreen =
            IF @ # new_state.is_fullscreen THEN new_state.is_fullscreen ELSE @,
        !.has_decorations =
            IF @ # new_state.has_decorations THEN new_state.has_decorations ELSE @,
        !.is_visible = IF @ # new_state.is_visible THEN new_state.is_visible ELSE @,
        !.min_dimensions =
            IF old_state.max_dimensions # new_state.max_dimensions
              THEN new_state.max_dimensions
              ELSE IF @ # new_state.min_dimensions THEN new_state.min_dimensions ELSE @]

\* (faulty variant: self.state is replaced by the desired state as a whole)
UserStateAfter_assign_all(old_state, new_state) == new_state

\* (faulty variant: no block stores the value it has just applied)
UserStateAfter_not_stored(old_state, new_state) == old_state

\* Window::update_from_user_window_state: self.state afterwards
UserStateAfter(old_state, new_state) ==
    [old_state EXCEPT
        !.title = IF @ # new_state.title THEN new_state.title ELSE @,
        !.mouse_cursor_type =
            IF @ # new_state.mouse_cursor_type THEN new_state.mouse_cursor_type ELSE @,
        !.is_maximized = IF @ # new_state.is_maximized THEN new_state.is_maximized ELSE @,
        !.is_fullscreen =
            IF @ # new_state.is_fullscreen THEN new_state.is_fullscreen ELSE @,
        !.has_decorations =
            IF @ # new_state.has_decorations THEN new_state.has_decorations ELSE @,
        !.is_visible = IF @ # new_state.is_visible THEN new_state.is_visible ELSE @,
        !.min_dimensions =
            IF @ # new_state.min_dimensions THEN new_state.min_dimensions ELSE @,
        !.max_dimensions =
            IF @ # new_state.max_dimensions THEN new_state.max_dimensions ELSE @]

update_from_user_window_state(new_state) ==
    /\ LET issued == UserStateCalls(state, new_state)
       IN /\ calls' = issued
          /\ platform' = ApplyCalls(platform, issued)
    /\ state' = UserStateAfter(state, new_state)
    /\ last' = [name |-> "update_from_user_window_state", new_state |-> new_state,
                \* history: when this call repeats the desired state of the
                \* call just before it, the number of platform calls that
                \* call issued
                repeats |-> IF /\ last.name = "update_from_user_window_state"
                               /\ last.new_state = new_state
                              THEN Some(Len(calls)) ELSE None]
    /\ UNCHANGED <<node_layout, svars, cvars>>

\* the MouseState values the event loop passes to set_mouse_state
MouseStates ==
    [mouse_position : Values("mouse_position"), scroll_x : Values("scroll_x"),
     scroll_y : Values("scroll_y"), mouse_cursor_type : Values("mouse_cursor_type")]

\* Window::set_mouse_state: self.state.mouse_state = *mouse
set_mouse_state(mouse) ==
    /\ state' = [state EXCEPT !.mouse_position = mouse.mouse_position,
                              !.scroll_x = mouse.scroll_x,
                              !.scroll_y = mouse.scroll_y,
                              !.mouse_cursor_type = mouse.mouse_cursor_type]
    /\ calls' = <<>>
    /\ last' = [name |-> "set_mouse_state", mouse |-> mouse]
    /\ UNCHANGED <<node_layout, platform, svars, cvars>>

\* (faulty variant: only the horizontal delta is reset)
clear_scroll_state_x_only ==
    /\ state' = [state EXCEPT !.scroll_x = 0]
    /\ calls' = <<>>
    /\ last' = [name |-> "clear_scroll_state",
                before |-> <<state.scroll_x, state.scroll_y>>]
    /\ UNCHANGED <<node_layout, platform, svars, cvars>>

\* Window::clear_scroll_state; `before` is history: the deltas it found
clear_scroll_state ==
    /\ state' = [state EXCEPT !.scroll_x = 0, !.scroll_y = 0]
    /\ calls' = <<>>
    /\ last' = [name |-> "clear_scroll_state",
                before |-> <<state.scroll_x, state.scroll_y>>]
    /\ UNCHANGED <<node_layout, platform, svars, cvars>>

\* ------------------------------------------------------------ construction
\* Result<T, E>, and the outcome of a call that panicked
Ok(v) == [kind |-> "Ok", val |-> <<v>>]
Err(e) == [kind |-> "Err", val |-> <<e>>]
Panic == [kind |-> "Panic", val |-> <<>>]
IsOk(r) == r.kind = "Ok"

\* The platform's GL backend: the set of <<vsync, srgb>> settings for which
\* CombinedContext::new succeeds.  A failed attempt reports an error of its
\* own, told apart here by the settings of the attempt.
ContextSettings == BOOLEAN \X BOOLEAN
Backends == SUBSET ContextSettings
CreationError(builder) == <<"CreationError", builder.vsync, builder.srgb>>

\* (faulty variant: fallback builders lose the shared context)
create_context_builder_unshared(vsync, srgb, shared_context) ==
    [vsync |-> vsync, srgb |-> srgb,
     shared_lists |-> IF vsync /\ srgb THEN shared_context ELSE None]

\* create_context_builder: with_shared_lists only for Some(shared_context)
create_context_builder(vsync, srgb, shared_context) ==
    [vsync |-> vsync, srgb |-> srgb, shared_lists |-> shared_context]

\* CombinedContext::new(window, builder, events_loop): one attempt, as the
\* log of attempts made and the result
CombinedContext_new(backend, builder) ==
    LET result == IF <<builder.vsync, builder.srgb>> \in backend
                    THEN Ok(builder) ELSE Err(CreationError(builder))
    IN [attempts |-> <<[builder |-> builder, ok |-> IsOk(result)]>>,
        result |-> result]

\* (faulty variant: the fallback is evaluated eagerly, as Result::or does)
or_else_eager(r, fallback) ==
    [attempts |-> r.attempts \o fallback.attempts,
     result |-> IF IsOk(r.result) THEN r.result ELSE fallback.result]

\* (faulty variant: a failed fallback reports the error it was called for)
or_else_first_error(r, fallback) ==
    IF IsOk(r.result) THEN r
    ELSE [attempts |-> r.attempts \o fallback.attempts,
          result |-> IF IsOk(fallback.result) THEN fallback.result ELSE r.result]

\* Result::or_else(|_| fallback): the closure runs only on Err, and its
\* result replaces the error
or_else(r, fallback) ==
    IF IsOk(r.result) THEN r
    ELSE [attempts |-> r.attempts \o fallback.attempts, result |-> fallback.result]

\* Result::map_err(WindowCreateError::CreateError)
map_err_CreateError(r) ==
    IF IsOk(r.result) THEN r
    ELSE [r EXCEPT !.result = Err(<<"CreateError", r.result.val[1]>>)]

create_gl_window(backend, shared_context) ==
    map_err_CreateError(
        or_else(or_else(or_else(
            CombinedContext_new(backend, create_context_builder(TRUE, TRUE, shared_context)),
            CombinedContext_new(backend, create_context_builder(TRUE, FALSE, shared_context))),
            CombinedContext_new(backend, create_context_builder(FALSE, TRUE, shared_context))),
            CombinedContext_new(backend, create_context_builder(FALSE, FALSE, shared_context))))

\* u32 arithmetic on <<high half, low half>>
U32_wrapping_add(a, b) ==
    LET lo == a[2] + b[2]
    IN <<(a[1] + b[1] + (IF lo >= Half THEN 1 ELSE 0)) % Half, lo % Half>>
U32_less(a, b) == a[1] < b[1] \/ (a[1] = b[1] /\ a[2] < b[2])

\* Renderer::new with the native or the OSMesa options
RendererKinds == {"Native", "OSMesa"}
Renderer_new(working, renderer_kind) ==
    [attempts |-> <<[renderer_kind |-> renderer_kind,
                     ok |-> renderer_kind \in working]>>,
     result |-> IF renderer_kind \in working
                  THEN Ok(renderer_kind) ELSE Err("RendererError")]

\* Result::unwrap
unwrap(r) == IF IsOk(r.result) THEN r ELSE [r EXCEPT !.result = Panic]

\* (faulty variant: every renderer type falls back to the other kind)
create_renderer_always_fallback(working, renderer_type) ==
    LET first == IF renderer_type = "Software" THEN "OSMesa" ELSE "Native"
        other == IF renderer_type = "Software" THEN "Native" ELSE "OSMesa"
    IN unwrap(or_else(Renderer_new(working, first), Renderer_new(working, other)))

\* create_renderer; `working` is the set of renderer kinds that can be
\* initialised on this machine
create_renderer(working, renderer_type) ==
    CASE renderer_type = "Hardware" -> unwrap(Renderer_new(working, "Native"))
      [] renderer_type = "Software" -> unwrap(Renderer_new(working, "OSMesa"))
      [] renderer_type = "Default" ->
            LET native == Renderer_new(working, "Native")
            IN IF IsOk(native.result) THEN native
               ELSE LET osmesa == unwrap(Renderer_new(working, "OSMesa"))
                    IN [attempts |-> native.attempts \o osmesa.attempts,
                        result |-> osmesa.result]

\* new_pipeline_id: fetch_add(1) on the static counter, the value before
\* the increment cast to u32
new_pipeline_id(counter) ==
    [pipeline_id |-> counter, counter |-> U32_wrapping_add(counter, <<0, 1>>)]

RendererTypes == {"Default", "Hardware", "Software"}
GlApis == {"OpenGl", "OpenGlEs", "WebGl"}
\* creation options: the ones that differ in what Window::new does with the
\* window before it returns
CreateOptions ==
    {Changed(BaseState, D) : D \in SUBSET {"is_visible", "is_fullscreen"}}

\* a panic unwinds out of the constructor and ends the process
Panicked == last.name = "FakeDisplay::new" /\ last.result.kind = "Panic"

\* FakeDisplay::new(renderer_type, background) on a machine with the given
\* GL backend, display creation outcome, GL api and working renderer kinds
FakeDisplay_new(backend, display_ok, api, working, renderer_type) ==
    /\ fake_display = None
    /\ ~Panicked
    /\ LET gl_window == create_gl_window(backend, None)
           renderer == create_renderer(working, renderer_type)
           at_renderer == IsOk(gl_window.result) /\ display_ok /\ api # "WebGl"
           result ==
               IF ~IsOk(gl_window.result) THEN gl_window.result
               ELSE IF ~display_ok THEN Err(<<"DisplayCreateError">>)
               ELSE IF api = "WebGl" THEN Err(<<"WebGlNotSupported">>)
               ELSE IF ~IsOk(renderer.result) THEN Panic
               ELSE Ok(<<"FakeDisplay">>)
       IN /\ ctx_attempts' = gl_window.attempts
          /\ renderer_attempts' = IF at_renderer THEN renderer.attempts ELSE <<>>
          /\ fake_display' =
                IF IsOk(result)
                  THEN Some([renderer |-> Some(renderer.result.val[1]),
                             hidden_display |-> gl_window.result.val[1]])
                  ELSE None
          /\ last' = [name |-> "FakeDisplay::new", renderer_type |-> renderer_type,
                      gl_window |-> gl_window.result, result |-> result]
    /\ UNCHANGED <<node_layout, LAST_PIPELINE_ID, documents, windows, svars, wvars>>

\* (faulty variant: the document and the pipeline id are taken before the
\* context and the display are created)
Window_new_register_first(backend, display_ok, options) ==
    /\ fake_display # None
    /\ Len(windows) < MaxWindows
    /\ LET gl_window == create_gl_window(backend, Some("hidden_display"))
           created == IsOk(gl_window.result) /\ display_ok
           id == new_pipeline_id(LAST_PIPELINE_ID)
           window == [pipeline_id |-> id.pipeline_id,
                      document_id |-> documents,
                      shared_lists |-> gl_window.result.val[1].shared_lists,
                      is_visible |-> WindowNew_platform(options).is_visible]
       IN /\ ctx_attempts' = gl_window.attempts
          /\ documents' = U32_wrapping_add(documents, <<0, 1>>)
          /\ LAST_PIPELINE_ID' = id.counter
          /\ windows' = IF created THEN Append(windows, window) ELSE windows
          /\ calls' = IF IsOk(gl_window.result) THEN WindowNew_calls(options) ELSE <<>>
          /\ last' = [name |-> "Window::new", options |-> options,
                      gl_window |-> gl_window.result,
                      result |-> IF ~IsOk(gl_window.result) THEN gl_window.result
                                 ELSE IF ~display_ok THEN Err(<<"DisplayCreateError">>)
                                 ELSE Ok(<<"Window">>)]
    /\ renderer_attempts' = <<>>
    /\ UNCHANGED <<node_layout, fake_display, svars, state, platform>>

\* (faulty variant: the renderer is released when the fields are dropped,
\* after the hidden display)
Drop_for_FakeDisplay_late(display) ==
    [events |-> <<<<"drop", "render_api">>, <<"drop", "hidden_display">>,
                  <<"deinit", display.renderer[1]>>, <<"drop", "hidden_events_loop">>>>,
     renderer |-> None,
     result |-> Ok(<<>>)]

\* impl Drop for FakeDisplay: drop() takes the renderer out of its slot,
\* unwraps it and calls deinit(); after drop() the fields are dropped in
\* declaration order (render_api, renderer, hidden_display,
\* hidden_events_loop).  The events, the renderer slot after drop() and
\* whether drop() returned or panicked.
Drop_for_FakeDisplay(display) ==
    LET taken == display.renderer
        fields == <<<<"drop", "render_api">>, <<"drop", "renderer">>,
                    <<"drop", "hidden_display">>, <<"drop", "hidden_events_loop">>>>
    IN IF taken = None
         THEN [events |-> fields, renderer |-> None, result |-> Panic]
         ELSE [events |-> <<<<"deinit", taken[1]>>>> \o fields,
               renderer |-> None,
               result |-> Ok(<<>>)]

\* the process drops its FakeDisplay
FakeDisplay_drop ==
    /\ fake_display # None
    /\ LET dropped == Drop_for_FakeDisplay(fake_display[1])
       IN last' = [name |-> "FakeDisplay::drop", events |-> dropped.events,
                   renderer |-> dropped.renderer, result |-> dropped.result]
    /\ fake_display' = None
    /\ ctx_attempts' = <<>>
    /\ renderer_attempts' = <<>>
    /\ UNCHANGED <<node_layout, LAST_PIPELINE_ID, documents, windows, svars, wvars>>

\* Window::new(render_api, shared_context, events_loop, options, css) with
\* the FakeDisplay's context as shared_context
Window_new(backend, display_ok, options) ==
    /\ fake_display # None
    /\ Len(windows) < MaxWindows
    /\ LET gl_window == create_gl_window(backend, Some("hidden_display"))
           created == IsOk(gl_window.result) /\ display_ok
           id == new_pipeline_id(LAST_PIPELINE_ID)
           window == [pipeline_id |-> id.pipeline_id,
                      document_id |-> documents,
                      shared_lists |-> gl_window.result.val[1].shared_lists,
                      is_visible |-> WindowNew_platform(options).is_visible]
       IN /\ ctx_attempts' = gl_window.attempts
          /\ IF created
               THEN /\ documents' = U32_wrapping_add(documents, <<0, 1>>)
                    /\ LAST_PIPELINE_ID' = id.counter
                    /\ windows' = Append(windows, window)
               ELSE UNCHANGED <<documents, LAST_PIPELINE_ID, windows>>
          /\ calls' = IF IsOk(gl_window.result) THEN WindowNew_calls(options) ELSE <<>>
          /\ last' = [name |-> "Window::new", options |-> options,
                      gl_window |-> gl_window.result,
                      result |-> IF ~IsOk(gl_window.result) THEN gl_window.result
                                 ELSE IF ~display_ok THEN Err(<<"DisplayCreateError">>)
                                 ELSE Ok(<<"Window">>)]
    /\ renderer_attempts' = <<>>
    /\ UNCHANGED <<node_layout, fake_display, svars, state, platform>>

\* 2^32 - 1 calls of Window::new in a row that succeed and whose windows
\* the caller drops again
Window_new_and_drop_many ==
    /\ fake_display # None
    /\ LAST_PIPELINE_ID[1] = 0
    /\ LAST_PIPELINE_ID' = U32_wrapping_add(LAST_PIPELINE_ID, <<Half - 1, Half - 1>>)
    /\ documents' = U32_wrapping_add(documents, <<Half - 1, Half - 1>>)
    /\ last' = [name |-> "Window::new, drop", times |-> <<Half - 1, Half - 1>>]
    /\ ctx_attempts' = <<>>
    /\ renderer_attempts' = <<>>
    /\ UNCHANGED <<node_layout, fake_display, windows, svars, wvars>>

\* ------------------------------------------------ CallbackInfo, the DOM
\* NodeId is kept as NodeId::index(), counted from 0; the root is node 0.
\* NodeHierarchy is the sequence of the arena's nodes, each with its parent
\* (None for the root); a node is appended after its parent, and the children
\* of a node follow each other in arena order.
MaxNodes == 5

RootOnly == <<[parent |-> None]>>

NodeHierarchies ==
    UNION {{h \in [1..n -> [parent : {None} \cup {Some(p) : p \in 0..(n - 1)}]] :
               /\ h[1].parent = None
               /\ \A i \in 2..n : h[i].parent # None /\ h[i].parent[1] < i - 1}
           : n \in 1..MaxNodes}

\* NodeHierarchy::len
NodeHierarchy_len(hierarchy) == Len(hierarchy)

\* node_layout[node_id] : Index<NodeId> for NodeHierarchy, a panic when the
\* index is not one of the arena's
NodeHierarchy_index(hierarchy, node_id) ==
    IF node_id + 1 \in DOMAIN hierarchy THEN Ok(hierarchy[node_id + 1]) ELSE Panic

\* NodeHierarchy::get_index_in_parent : the number of siblings before the node
NodeHierarchy_get_index_in_parent(hierarchy, node_id) ==
    Cardinality({i \in 0..(node_id - 1) :
                    hierarchy[i + 1].parent = hierarchy[node_id + 1].parent})

\* CallbackInfo::get_index_in_parent(node_id) over the given node_layout
get_index_in_parent(hierarchy, node_id) ==
    IF node_id > NodeHierarchy_len(hierarchy) THEN Ok(None)
    ELSE LET node == NodeHierarchy_index(hierarchy, node_id)
         IN IF ~IsOk(node) THEN Panic
            ELSE IF node.val[1].parent = None THEN Ok(None)
            ELSE Ok(Some(<<NodeHierarchy_get_index_in_parent(hierarchy, node_id),
                           node.val[1].parent[1]>>))

CallbackInfo_get_index_in_parent(node_id) ==
    /\ last' = [name |-> "get_index_in_parent", node_id |-> node_id,
                ret |-> get_index_in_parent(node_layout, node_id)]
    /\ UNCHANGED <<node_layout, svars, wvars, cvars>>

\* ---------------------------------------------------------- specifications
\* the process before any constructor has run
ProcessInit ==
    /\ fake_display = None
    /\ LAST_PIPELINE_ID = <<0, 0>>
    /\ documents = <<0, 0>>
    /\ windows = <<>>
    /\ ctx_attempts = <<>>
    /\ renderer_attempts = <<>>

\* a Window as Window::new(options) returns it
WindowInit(options) ==
    /\ ProcessInit
    /\ scroll_states = ScrollStates_new
    /\ touched = {}
    /\ purged = {}
    /\ last = Call("new", 0, 0, 0, None)
    /\ state = WindowNew_state(options)
    /\ platform = WindowNew_platform(options)
    /\ calls = <<>>

\* Spec: the scroll-state table of one window under any sequence of calls
Init == WindowInit(BaseState) /\ node_layout = RootOnly

Next ==
    \/ \E id \in ScrollIds : get_scroll_amount(id)
    \/ \E id \in ScrollIds, dx \in Deltas, dy \in Deltas : scroll_node(id, dx, dy)
    \/ \E id \in ScrollIds, ox \in Overflows, oy \in Overflows :
          ensure_initialized_scroll_state(id, ox, oy)
    \/ remove_unused_scroll_states

Spec == Init /\ [][Next]_vars

\* SpecWindow: a window created from some options, then any sequence of
\* desired states.  The options and a desired state differ from the default
\* state in at most MaxChanged tracked fields (and so a desired state from
\* the stored one in up to twice as many), or a desired state differs from
\* the stored one in any of the untracked fields only.
RECURSIVE SetsUpTo(_, _)
SetsUpTo(F, k) ==
    IF k = 0 THEN {{}}
    ELSE LET P == SetsUpTo(F, k - 1) IN P \cup {D \cup {f} : D \in P, f \in F}

DesiredStates ==
    {Changed(BaseState, D) : D \in SetsUpTo(TrackedFields, MaxChanged)}

InitWindow ==
    /\ \E options \in DesiredStates : WindowInit(options)
    /\ node_layout = RootOnly

NextWindow ==
    \/ \E new_state \in DesiredStates : update_from_user_window_state(new_state)
    \/ \E D \in (SUBSET UntrackedFields) \ {{}} :
          update_from_user_window_state(Changed(state, D))

SpecWindow == InitWindow /\ [][NextWindow]_vars

\* SpecTelemetry: desired states that carry other values in the fields
\* update_from_user_window_state does not apply: in untracked fields only,
\* in one field of the event loop only, or in one such field together with
\* tracked fields (the default state with one tracked field changed).
NextTelemetry ==
    \/ \E D \in (SUBSET UntrackedFields) \ {{}} :
          update_from_user_window_state(Changed(state, D))
    \/ \E g \in OtherFields : update_from_user_window_state(Changed(state, {g}))
    \/ \E f \in TrackedFields, g \in UntrackedFields \cup OtherFields :
          update_from_user_window_state(Changed(BaseState, {f, g}))

SpecTelemetry == InitWindow /\ [][NextTelemetry]_vars

\* SpecFrame: one window through its frames: the event loop stores the
\* mouse state, layout registers scroll nodes, and the frame ends with
\* clear_scroll_state
NextFrame ==
    \/ \E mouse \in MouseStates : set_mouse_state(mouse)
    \/ \E id \in ScrollIds, ox \in Overflows, oy \in Overflows :
          ensure_initialized_scroll_state(id, ox, oy)
    \/ clear_scroll_state

SpecFrame == Init /\ [][NextFrame]_vars

\* SpecCreate: a process that creates its FakeDisplay on any machine and
\* then constructs windows; the single window of the other specifications
\* is left as it is.
NextCreate ==
    \/ \E backend \in Backends, display_ok \in BOOLEAN, api \in GlApis,
          working \in SUBSET RendererKinds, renderer_type \in RendererTypes :
          FakeDisplay_new(backend, display_ok, api, working, renderer_type)
    \/ \E backend \in Backends, display_ok \in BOOLEAN, options \in CreateOptions :
          Window_new(backend, display_ok, options)
    \/ Window_new_and_drop_many

SpecCreate == Init /\ [][NextCreate]_vars

\* SpecTeardown: a process that creates its FakeDisplay on any machine,
\* constructs windows (on a backend that accepts every setting), drops the
\* FakeDisplay at any time, and may create it again
NextTeardown ==
    \/ \E backend \in Backends, display_ok \in BOOLEAN, api \in GlApis,
          working \in SUBSET RendererKinds, renderer_type \in RendererTypes :
          FakeDisplay_new(backend, display_ok, api, working, renderer_type)
    \/ \E options \in CreateOptions : Window_new(ContextSettings, TRUE, options)
    \/ FakeDisplay_drop

SpecTeardown == Init /\ [][NextTeardown]_vars

\* SpecHierarchy: a callback asking for the position of any node id, in range
\* or not, of any DOM of up to MaxNodes nodes
InitHierarchy == WindowInit(BaseState) /\ node_layout \in NodeHierarchies

NextHierarchy ==
    \E node_id \in 0..(Len(node_layout) + 1) : CallbackInfo_get_index_in_parent(node_id)

SpecHierarchy == InitHierarchy /\ [][NextHierarchy]_vars

\* ------------------------------------------------------------------ claims
Registered(id) == id \in DOMAIN scroll_states
IsCall(c, name) == c.name = name

\* C1 (as stated): every entry of ScrollStates has 0 <= offset_x <= overflow_x
\* and 0 <= offset_y <= overflow_y, whatever overflow bounds were registered.
C1_OffsetWithinOverflow ==
    \A i \in DOMAIN scroll_states :
        LET e == scroll_states[i]
        IN /\ 0 <= e.scroll_amount_x /\ e.scroll_amount_x <= e.overflow_x
           /\ 0 <= e.scroll_amount_y /\ e.scroll_amount_y <= e.overflow_y

\* C1 (amended): every entry of ScrollStates has, on each axis,
\* 0 <= offset <= max(0, overflow); so 0 <= offset <= overflow on every axis
\* registered with a non-negative overflow bound, and offset = 0 on an axis
\* registered with a negative one.
C1_OffsetWithinClampedOverflow ==
    \A i \in DOMAIN scroll_states :
        LET e == scroll_states[i]
        IN /\ 0 <= e.scroll_amount_x
           /\ e.scroll_amount_x <= Max(0, e.overflow_x)
           /\ 0 <= e.scroll_amount_y
           /\ e.scroll_amount_y <= Max(0, e.overflow_y)

\* a scroll past the bound on an entry with one negative and one positive
\* overflow bound
C1_Witness ==
    /\ IsCall(last, "scroll_node")
    /\ Registered(last.id)
    /\ LET e == scroll_states[last.id]
       IN /\ e.overflow_x < 0
          /\ last.x < 0
          /\ e.overflow_y > 0
          /\ last.y > e.overflow_y
          /\ e.scroll_amount_y = e.overflow_y

\* C2: remove_unused removes exactly the entries whose id was not touched by
\* ensure_initialized, get_scroll_amount or scroll_node since the previous
\* remove_unused: the key set becomes (previous key set intersect touched),
\* and every surviving entry keeps its offsets.
C2_RemoveUnusedRemovesUntouched ==
    [][IsCall(last', "remove_unused_scroll_states") =>
          /\ DOMAIN scroll_states' = DOMAIN scroll_states \cap touched
          /\ \A i \in DOMAIN scroll_states' :
                /\ i \in DOMAIN scroll_states
                /\ scroll_states'[i].scroll_amount_x = scroll_states[i].scroll_amount_x
                /\ scroll_states'[i].scroll_amount_y = scroll_states[i].scroll_amount_y
      ]_vars

\* C3: an id that had a non-zero offset and was touched by no operation
\* during a whole frame is forgotten by that frame's remove_unused: a later
\* ensure_initialized(id, ..) followed by get_scroll_amount(id) returns (0, 0).
\* (id \in purged \cap touched: since that remove_unused the id was passed to
\* ensure_initialized only.)
C3_NoLeakAcrossRemoval ==
    [][(/\ IsCall(last', "get_scroll_amount")
        /\ last'.id \in purged
        /\ last'.id \in touched)
          => last'.ret = Some(<<0, 0>>)
      ]_vars

\* C4: scroll_node(id, dx, dy) on a registered id sets each axis to
\* max(0, min(overflow, offset + delta)) of that axis alone and leaves the
\* overflow bounds as they were; ensure_initialized(1, 100, 50),
\* scroll_node(1, 30, 80), get_scroll_amount(1) returns (30, 50).
C4_ScrollNodeClampsPerAxis ==
    [][/\ (IsCall(last', "scroll_node") /\ Registered(last'.id)) =>
            LET o == scroll_states[last'.id]
                n == scroll_states'[last'.id]
            IN /\ n.scroll_amount_x =
                    Max(0, Min(o.overflow_x, o.scroll_amount_x + last'.x))
               /\ n.scroll_amount_y =
                    Max(0, Min(o.overflow_y, o.scroll_amount_y + last'.y))
               /\ n.overflow_x = o.overflow_x
               /\ n.overflow_y = o.overflow_y
       /\ ScrollState_get(ScrollState_add(ScrollState_new(100, 50), 30, 80)).ret
            = <<30, 50>>
      ]_vars

\* a scroll that is clamped on the y axis and not on the x axis
C4_Witness ==
    /\ IsCall(last, "scroll_node")
    /\ Registered(last.id)
    /\ LET e == scroll_states[last.id]
       IN /\ last.x > 0
          /\ e.scroll_amount_x = last.x
          /\ e.overflow_y > 0
          /\ last.y > e.overflow_y
          /\ e.scroll_amount_y = e.overflow_y

\* C5: scroll_node on an id that is not registered changes nothing (no entry
\* is created, no entry is changed), and a get_scroll_amount on that id right
\* after it returns None.
C5_ScrollUnknownIsNoOp ==
    [][/\ (IsCall(last', "scroll_node") /\ ~Registered(last'.id))
            => scroll_states' = scroll_states
       /\ (/\ IsCall(last, "scroll_node")
           /\ ~Registered(last.id)
           /\ IsCall(last', "get_scroll_amount")
           /\ last'.id = last.id)
            => (last'.ret = None /\ scroll_states' = scroll_states)
      ]_vars

\* a non-zero scroll on the unregistered id 99 while id 1 is registered
C5_Witness ==
    /\ IsCall(last, "scroll_node")
    /\ last.id = 99
    /\ last.x # 0
    /\ last.y # 0
    /\ DOMAIN scroll_states = {1}
    /\ scroll_states[1].scroll_amount_x # 0

\* C6: get_scroll_amount(id) returns Some(the entry's offset) and leaves the
\* entry marked used when id is registered, and None when it is not; it
\* changes no offset, no overflow bound and not the set of registered ids.
C6_GetReturnsOffset ==
    [][IsCall(last', "get_scroll_amount") =>
          /\ IF Registered(last'.id)
               THEN /\ last'.ret = Some(<<scroll_states[last'.id].scroll_amount_x,
                                          scroll_states[last'.id].scroll_amount_y>>)
                    /\ scroll_states'[last'.id].used_this_frame
               ELSE last'.ret = None
          /\ DOMAIN scroll_states' = DOMAIN scroll_states
          /\ \A i \in DOMAIN scroll_states :
                /\ scroll_states'[i].scroll_amount_x = scroll_states[i].scroll_amount_x
                /\ scroll_states'[i].scroll_amount_y = scroll_states[i].scroll_amount_y
                /\ scroll_states'[i].overflow_x = scroll_states[i].overflow_x
                /\ scroll_states'[i].overflow_y = scroll_states[i].overflow_y
      ]_vars

\* a read of a registered entry whose two offsets differ
C6_Witness ==
    /\ IsCall(last, "get_scroll_amount")
    /\ Registered(last.id)
    /\ last.ret # None
    /\ last.ret[1][1] # last.ret[1][2]

\* C7: ensure_initialized(id, ox, oy) inserts an entry with offset (0, 0)
\* when id is absent, leaves the offset of an already registered id as it is
\* whatever bounds are passed, and never changes another id's entry.
C7_EnsureInitialized ==
    [][IsCall(last', "ensure_initialized_scroll_state") =>
          /\ DOMAIN scroll_states' = DOMAIN scroll_states \cup {last'.id}
          /\ IF Registered(last'.id)
               THEN /\ scroll_states'[last'.id].scroll_amount_x
                         = scroll_states[last'.id].scroll_amount_x
                    /\ scroll_states'[last'.id].scroll_amount_y
                         = scroll_states[last'.id].scroll_amount_y
               ELSE /\ scroll_states'[last'.id].scroll_amount_x = 0
                    /\ scroll_states'[last'.id].scroll_amount_y = 0
          /\ \A i \in DOMAIN scroll_states \ {last'.id} :
                scroll_states'[i] = scroll_states[i]
      ]_vars

\* a re-registration, with smaller bounds, of an entry that is scrolled
C7_Witness ==
    /\ IsCall(last, "ensure_initialized_scroll_state")
    /\ Registered(last.id)
    /\ LET e == scroll_states[last.id]
       IN /\ e.scroll_amount_x > 0
          /\ last.x < e.scroll_amount_x
          /\ last.y < e.overflow_y
    /\ \E i \in DOMAIN scroll_states : i # last.id

\* C8: after ensure_initialized on a registered id with other bounds, the
\* next scroll_node on that id clamps the offset into [0, new overflow], the
\* bounds most recently passed to ensure_initialized.
C8_NextScrollClampsToNewBounds ==
    [][(/\ IsCall(last, "ensure_initialized_scroll_state")
        /\ IsCall(last', "scroll_node")
        /\ last'.id = last.id
        /\ last.id \in DOMAIN scroll_states')
          => LET n == scroll_states'[last.id]
             IN /\ 0 <= n.scroll_amount_x
                /\ n.scroll_amount_x <= Max(0, last.x)
                /\ 0 <= n.scroll_amount_y
                /\ n.scroll_amount_y <= Max(0, last.y)
      ]_vars

\* the entry of a registered id after scroll_node(id, x1, y1) and then
\* scroll_node(id, x2, y2)
AfterTwoScrolls(e, x1, y1, x2, y2) ==
    ScrollState_add(ScrollState_add(e, x1, y1), x2, y2)

\* Every table the window can hold is also held right after a
\* remove_unused_scroll_states call (the call is always possible and, the
\* flag never being cleared, changes no entry), so the two-call properties
\* are evaluated on those states.
AtFrameEnd == IsCall(last, "remove_unused_scroll_states")

SameDirection(a, b) == (a >= 0 /\ b >= 0) \/ (a <= 0 /\ b <= 0)
\* neither order of adding a and b to offset leaves [0, overflow]
NeverClamped(offset, overflow, a, b) ==
    \A v \in {offset + a, offset + b, offset + a + b} : 0 <= v /\ v <= overflow

C10_StateEqualsNewOnTrackedFields ==
    IsCall(last, "update_from_user_window_state") =>
        \A f \in TrackedFields : state[f] = last.new_state[f]

\* an update that had to change MaxChanged tracked fields, the title and
\* max_dimensions among them
C10_Witness ==
    /\ IsCall(last, "update_from_user_window_state")
    /\ Len(calls) = MaxChanged
    /\ \E i \in 1..Len(calls) : calls[i][1] = "set_max_dimensions"
    /\ \E i \in 1..Len(calls) : calls[i][1] = "set_title"

\* the winit mutators that write a tracked field
MutatorsOf(f) ==
    CASE f = "title" -> {"set_title"}
      [] f = "mouse_cursor_type" -> {"set_cursor"}
      [] f = "is_maximized" -> {"set_maximized"}
      [] f = "is_fullscreen" -> {"set_fullscreen"}
      [] f = "has_decorations" -> {"set_decorations"}
      [] f = "is_visible" -> {"show", "hide"}
      [] f = "min_dimensions" -> {"set_min_dimensions"}
      [] f = "max_dimensions" -> {"set_max_dimensions"}

IsUpdate(c) == IsCall(c, "update_from_user_window_state")
Differing(old_state, new_state) ==
    {f \in TrackedFields : old_state[f] # new_state[f]}

\* C11: one call of update_from_user_window_state issues, for each tracked
\* field whose stored and desired values differ, exactly one call of that
\* field's platform mutator, and that call carries the desired value; it
\* issues no call of the mutator of a field whose values are equal, and no
\* other call.  So equal states give zero calls and one differing field
\* gives exactly one.
C11_OneCallPerDifferingField ==
    [][IsUpdate(last') =>
          LET new_state == last'.new_state
              issued == calls'
              differing == Differing(state, new_state)
          IN \* as many calls as differing fields, and each differing field
             \* has its call among them: the mutators of different fields
             \* being different, no other call is left over
             /\ Len(issued) = Cardinality(differing)
             /\ \A f \in differing :
                   \E i \in 1..Len(issued) :
                       /\ issued[i][1] \in MutatorsOf(f)
                       /\ ApplyCall(platform, issued[i])[f] = new_state[f]]_vars

\* an update whose desired state differed from the stored one in the
\* visibility only: the single call issued is hide()
C11_Witness ==
    /\ IsUpdate(last)
    /\ calls = <<PlatformCall("hide", None)>>
    /\ ~state.is_visible

\* C12: when update_from_user_window_state is called twice in succession
\* with the same desired state, the second call issues no platform call and
\* leaves the stored state and the platform window as they were, whatever
\* the first call had to apply.
C12_SecondUpdateIsNoOp ==
    [][IsUpdate(last) /\ IsUpdate(last') /\ last'.new_state = last.new_state =>
          /\ calls' = <<>>
          /\ state' = state
          /\ platform' = platform]_vars

\* the second of two calls with one desired state, the first of which had
\* to issue MaxChanged platform calls
C12_Witness ==
    /\ IsUpdate(last)
    /\ last.repeats = Some(MaxChanged)
    /\ calls = <<>>

\* C13: update_from_user_window_state changes no stored field other than
\* the tracked fields whose stored and desired values differ: every field
\* that is not tracked (cursor position, dimensions, position, keyboard
\* state, scroll deltas, DPI factors) and every tracked field that is equal
\* keeps its value; and a desired state that differs only in fields that are
\* not tracked issues no platform call and leaves the stored state and the
\* platform window as they were.
C13_OnlyDifferingTrackedFieldsChange ==
    [][IsUpdate(last') =>
          LET new_state == last'.new_state
          IN /\ \A f \in Fields \ Differing(state, new_state) : state'[f] = state[f]
             /\ Differing(state, new_state) = {} =>
                   /\ calls' = <<>>
                   /\ state' = state
                   /\ platform' = platform]_vars

\* an update whose desired state differed from the stored one in cursor
\* position, dimensions and position at once and in nothing else
C13_Witness ==
    /\ IsUpdate(last)
    /\ calls = <<>>
    /\ \A f \in UntrackedFields : last.new_state[f] # state[f]
    /\ \A f \in Fields \ UntrackedFields : last.new_state[f] = state[f]

\* ------------------------------------------------- claims on construction
IsConstructor(c) == c.name \in {"Window::new", "FakeDisplay::new"}
\* the settings in the order the claims give: (vsync, srgb)
Ladder == <<<<TRUE, TRUE>>, <<TRUE, FALSE>>, <<FALSE, TRUE>>, <<FALSE, FALSE>>>>
SettingsOf(attempt) == <<attempt.builder.vsync, attempt.builder.srgb>>

\* C14: the context-creation attempts of one create_gl_window call are the
\* settings (on,on), (on,off), (off,on), (off,off) in this order, from the
\* first up to and including the first that succeeds: every attempt before
\* the last one made has failed, fewer than four attempts are made only when
\* the last one succeeded, and when the last one succeeded create_gl_window
\* returns the context of that attempt.
C14_FallbackLadder ==
    IsConstructor(last) =>
        LET n == Len(ctx_attempts)
        IN /\ n \in 1..4
           /\ \A k \in 1..n : SettingsOf(ctx_attempts[k]) = Ladder[k]
           /\ \A k \in 1..(n - 1) : ~ctx_attempts[k].ok
           /\ n < 4 => ctx_attempts[n].ok
           /\ ctx_attempts[n].ok =>
                 /\ IsOk(last.gl_window)
                 /\ last.gl_window.val[1] = ctx_attempts[n].builder

\* a Window::new whose first three attempts were rejected and whose fourth
\* gave the window its context
C14_Witness ==
    /\ last.name = "Window::new"
    /\ IsOk(last.result)
    /\ Len(ctx_attempts) = 4
    /\ ctx_attempts[4].ok
    /\ last.gl_window.val[1] = ctx_attempts[4].builder

\* C15: when every context-creation attempt of a create_gl_window call has
\* failed, four attempts were made, no more, and the constructor returns
\* Err(CreateError(e)) with e the error of the fourth attempt, the one with
\* vsync and srgb both off.
C15_AllFailedReturnsLastError ==
    IsConstructor(last) /\ (\A k \in 1..Len(ctx_attempts) : ~ctx_attempts[k].ok) =>
        /\ Len(ctx_attempts) = 4
        /\ SettingsOf(ctx_attempts[4]) = <<FALSE, FALSE>>
        /\ last.gl_window.kind = "Err"
        /\ last.gl_window.val[1] =
              <<"CreateError", CreationError(ctx_attempts[4].builder)>>
        /\ last.result = last.gl_window

\* a FakeDisplay::new on a machine whose backend rejects all four settings
C15_Witness ==
    /\ last.name = "FakeDisplay::new"
    /\ Len(ctx_attempts) = 4
    /\ ~ctx_attempts[4].ok
    /\ last.result.kind = "Err"

\* C16: every context-creation attempt of Window::new is built with the
\* shared context it was passed, every attempt of FakeDisplay::new with
\* none, and the context of every constructed window shares with a parent.
C16_OnlyBootstrapIsUnshared ==
    /\ last.name = "Window::new" =>
          \A k \in 1..Len(ctx_attempts) :
              ctx_attempts[k].builder.shared_lists = Some("hidden_display")
    /\ last.name = "FakeDisplay::new" =>
          \A k \in 1..Len(ctx_attempts) : ctx_attempts[k].builder.shared_lists = None
    /\ \A i \in 1..Len(windows) : windows[i].shared_lists # None

\* MaxWindows windows, the latest of which got its context from the third
\* attempt
C16_Witness ==
    /\ last.name = "Window::new"
    /\ Len(windows) = MaxWindows
    /\ Len(ctx_attempts) = 3
    /\ ctx_attempts[3].ok

\* C17: pipeline ids are unique and increase with construction order: of
\* any two constructed windows the one constructed later has the strictly
\* greater pipeline id (in particular the two ids differ).
C17_PipelineIdsIncrease ==
    \A i, j \in 1..Len(windows) :
        i < j => U32_less(windows[i].pipeline_id, windows[j].pipeline_id)

\* C18: a Window::new that returns an error leaves no trace: no window
\* exists that did not exist before, no document has been registered with
\* the render API and the pipeline-id counter is where it was.  It returns
\* an error in particular when all four context-creation attempts failed.
C18_FailedNewLeavesNoTrace ==
    [][last'.name = "Window::new" =>
          /\ (\A k \in 1..Len(ctx_attempts') : ~ctx_attempts'[k].ok) =>
                last'.result.kind = "Err"
          /\ last'.result.kind = "Err" =>
                /\ windows' = windows
                /\ documents' = documents
                /\ LAST_PIPELINE_ID' = LAST_PIPELINE_ID]_vars

\* a Window::new that got its context and then failed to create the
\* display, in a process that already has a window
C18_Witness ==
    /\ last.name = "Window::new"
    /\ last.result = Err(<<"DisplayCreateError">>)
    /\ IsOk(last.gl_window)
    /\ Len(windows) = 1
    /\ LAST_PIPELINE_ID = <<0, 1>>

\* C19: every constructed window is hidden on the platform, whatever the
\* is_visible value of its creation options, and no call that Window::new
\* makes on the window is show().
C19_NewWindowIsHidden ==
    /\ \A i \in 1..Len(windows) : ~windows[i].is_visible
    /\ last.name = "Window::new" =>
          \A k \in 1..Len(calls) : calls[k][1] # "show"

\* a window constructed from options that ask for a visible window
C19_Witness ==
    /\ last.name = "Window::new"
    /\ IsOk(last.result)
    /\ last.options.is_visible
    /\ ~windows[Len(windows)].is_visible
    /\ calls[1] = PlatformCall("hide", None)

\* C20: create_renderer with RendererType::Default attempts the hardware
\* (native) renderer first and the software (OSMesa) renderer only after the
\* hardware attempt has failed; with Hardware or Software it makes exactly
\* one attempt, of the forced kind, and when that attempt fails the call
\* panics.
C20_RendererSelection ==
    last.name = "FakeDisplay::new" /\ renderer_attempts # <<>> =>
        LET n == Len(renderer_attempts)
            Forced(renderer_kind) ==
                /\ n = 1
                /\ renderer_attempts[1].renderer_kind = renderer_kind
                /\ ~renderer_attempts[1].ok => last.result.kind = "Panic"
        IN CASE last.renderer_type = "Default" ->
                   /\ renderer_attempts[1].renderer_kind = "Native"
                   /\ n > 1 => /\ n = 2
                               /\ ~renderer_attempts[1].ok
                               /\ renderer_attempts[2].renderer_kind = "OSMesa"
             [] last.renderer_type = "Hardware" -> Forced("Native")
             [] last.renderer_type = "Software" -> Forced("OSMesa")

\* a FakeDisplay::new that forces the hardware renderer on a machine where
\* it cannot be initialised
C20_Witness ==
    /\ last.name = "FakeDisplay::new"
    /\ last.renderer_type = "Hardware"
    /\ renderer_attempts = <<[renderer_kind |-> "Native", ok |-> FALSE]>>
    /\ last.result.kind = "Panic"

\* C21: a constructor call outside a forced renderer mode (Window::new, or
\* FakeDisplay::new with RendererType::Default) never panics: every failure
\* comes back as Err.  In particular, when in Default mode both renderer
\* attempts fail the result is Err, and Err(WebGlNotSupported) is returned
\* before any renderer attempt is made.
C21_FailuresAreTypedErrors ==
    IsConstructor(last) /\ (last.name = "Window::new" \/ last.renderer_type = "Default") =>
        /\ last.result.kind # "Panic"
        /\ (/\ renderer_attempts # <<>>
            /\ \A k \in 1..Len(renderer_attempts) : ~renderer_attempts[k].ok)
              => last.result.kind = "Err"
        /\ last.result = Err(<<"WebGlNotSupported">>) => renderer_attempts = <<>>

\* C22: dropping the FakeDisplay calls renderer.deinit() exactly once, the
\* call comes before the hidden display is destroyed, and when drop() has
\* run the renderer slot is empty.
C22_DeinitOnceAndFirst ==
    last.name = "FakeDisplay::drop" =>
        LET events == last.events
            deinits == {i \in 1..Len(events) : events[i][1] = "deinit"}
            displays == {j \in 1..Len(events) : events[j] = <<"drop", "hidden_display">>}
        IN /\ Cardinality(deinits) = 1
           /\ Cardinality(displays) = 1
           /\ \A i \in deinits, j \in displays : i < j
           /\ last.renderer = None
           /\ IsOk(last.result)

\* the drop of a FakeDisplay that runs the software renderer, while a
\* window is alive
C22_Witness ==
    /\ last.name = "FakeDisplay::drop"
    /\ last.events[1] = <<"deinit", "OSMesa">>
    /\ fake_display = None
    /\ Len(windows) = 1

\* C23: clear_scroll_state sets the stored scroll deltas scroll_x and
\* scroll_y to 0 and changes nothing else: every other field of the stored
\* window state, the ScrollStates table and the platform window are as
\* before.
C23_ClearScrollState ==
    [][last'.name = "clear_scroll_state" =>
          /\ state'.scroll_x = 0
          /\ state'.scroll_y = 0
          /\ \A f \in Fields \ {"scroll_x", "scroll_y"} : state'[f] = state[f]
          /\ scroll_states' = scroll_states
          /\ platform' = platform]_vars

\* a frame end that found both deltas non-zero, with both scroll nodes
\* registered and a cursor position stored
C23_Witness ==
    /\ last.name = "clear_scroll_state"
    /\ last.before[1] # 0 /\ last.before[2] # 0
    /\ DOMAIN scroll_states = ScrollIds
    /\ state.mouse_position # None

C25_StateIsPlatformState ==
    [][/\ \A f \in TrackedFields : state[f] = platform[f]
       /\ \A f \in TrackedFields : state'[f] = platform'[f]
       /\ (IsCall(last, "new") /\ IsUpdate(last') /\ last'.new_state.is_visible) =>
             \E i \in 1..Len(calls') : calls'[i][1] = "show"]_vars

\* C26: CallbackInfo::get_index_in_parent returns None, without failing, for
\* every node id out of range of the node hierarchy (index >= number of nodes)
\* and for the root node; for an in-range node other than the root it returns
\* the node's 0-based position among its parent's children, with the parent id.
ChildrenBefore(parent, node_id) ==
    {c \in 0..(node_id - 1) : node_layout[c + 1].parent = Some(parent)}

C26_IndexInParent ==
    last.name = "get_index_in_parent" =>
        IF last.node_id >= Len(node_layout) \/ last.node_id = 0
        THEN last.ret = Ok(None)
        ELSE LET parent == node_layout[last.node_id + 1].parent[1]
             IN last.ret = Ok(Some(<<Cardinality(ChildrenBefore(parent, last.node_id)),
                                     parent>>))

============================================================================
